---- MODULE Spec2Model ----
(***************************************************************************)
(* Model of QuoteScraper (src/quote_scraper.py): the pagination loop of    *)
(* scrape_all over scrape_page, the two exports and get_statistics, over   *)
(* the instance's list self.quotes (the Collection).                       *)
(***************************************************************************)
EXTENDS Integers, Sequences, FiniteSets, TLC

VARIABLES
    quotes,      \* self.quotes: the Collection
    pc,          \* position of the single control flow
    op,          \* the public method called most recently
    outcome,     \* how the most recent call ended: returned, or the error it raised
    max_pages,   \* scrape_all's argument
    delay,       \* scrape_all's argument
    page_num,    \* scrape_all's loop variable
    page_quotes, \* what scrape_page returned to the loop
    response,    \* the HTTP exchange scrape_page is working on
    now,         \* the wall clock read by datetime.now(); it ticks between calls
    calls,       \* number of scrape_all calls made so far
    pre,         \* history: the Collection when the current scrape_all was called
    log,         \* history: the events of the current scrape_all call, in order
    fs,          \* the output directory: file name -> content
    stats        \* what get_statistics returned, until the next call

vars == <<quotes, pc, op, outcome, max_pages, delay, page_num, page_quotes,
          response, now, calls, pre, log, fs, stats>>

(***************************************************************************)
(* Bounds of the model.                                                    *)
(***************************************************************************)
MaxPages == 3     \* scrape_all is called with max_pages in 0..MaxPages
MaxBody == 2      \* a served page holds at most MaxBody quote elements
MaxQuotes == 3    \* the site serves no more than MaxQuotes records in all
MaxCalls == 2     \* scrape_all is called at most MaxCalls times
MaxStatLen == 3   \* length of the Collections get_statistics is tried on

Delays == {0, 1}

(***************************************************************************)
(* Python values.  None is a value of its own; a list and a str are told   *)
(* apart by their type, as Python tells them apart.                        *)
(***************************************************************************)
None == "<None>"

PyList(items) == [type |-> "list", items |-> items, s |-> ""]

PyStr(s) == [type |-> "str", items |-> <<>>, s |-> s]

RECURSIVE Join(_, _)
\* sep.join(items)
Join(sep, items) ==
    IF items = <<>> THEN ""
    ELSE IF Len(items) = 1 THEN items[1]
    ELSE items[1] \o sep \o Join(sep, Tail(items))

RECURSIVE Flatten(_)
\* the concatenation of a sequence of sequences
Flatten(ss) == IF ss = <<>> THEN <<>> ELSE ss[1] \o Flatten(Tail(ss))

SeqsUpTo(S, n) == UNION {[1..k -> S] : k \in 0..n}

IsPrefix(s, t) == Len(s) <= Len(t) /\ SubSeq(t, 1, Len(s)) = s

(***************************************************************************)
(* The pages the site serves.  An element is one <div class="quote">; its  *)
(* text or author is None when the sub-element is missing, which is what   *)
(* quote.find(...) returns then.                                           *)
(***************************************************************************)
Elements ==
    { [text |-> "q1", author |-> "X",  tags |-> <<"t1", "t2">>],
      [text |-> "q2", author |-> "Y",  tags |-> <<>>],
      [text |-> None, author |-> "X",  tags |-> <<"t1">>],
      [text |-> "q3", author |-> None, tags |-> <<>>] }

NoResponse == [kind |-> "none", body |-> <<>>]

\* what session.get and raise_for_status can come to: the GET raises (a
\* transport failure), the status is an error status (its body is an error
\* page, still HTML), or the status is a success
Responses(room) ==
    { [kind |-> "transport_error", body |-> <<>>] }
    \cup { [kind |-> k, body |-> b] :
             k \in {"http_error", "ok"},
             b \in { c \in SeqsUpTo(Elements, MaxBody) : Len(c) <= room } }

(***************************************************************************)
(* scrape_page                                                             *)
(***************************************************************************)
\* scrape_page without raise_for_status(): an error status goes unnoticed
OnlyTransportRaises(r) == r.kind = "transport_error"

\* response.raise_for_status(), and session.get raising: both are
\* requests.RequestException
RaisesRequestException(r) == r.kind \in {"transport_error", "http_error"}

\* quote.find(...).get_text() on a missing sub-element: None has no get_text
RaisesAttributeError(e) == e.text = None \/ e.author = None

\* datetime.now().isoformat(): the string of the clock's reading
IsoFormat(t) == ToString(t)

\* the dictionary appended for one element
Record(e, t) ==
    [text |-> e.text, author |-> e.author, tags |-> PyList(e.tags),
     scraped_at |-> IsoFormat(t)]

\* the for loop over quote_elements
ParseBody(body, t) ==
    IF \E i \in 1..Len(body) : RaisesAttributeError(body[i])
    THEN [kind |-> "raise", exc |-> "AttributeError", value |-> <<>>]
    ELSE [kind |-> "return", exc |-> "",
          value |-> [i \in 1..Len(body) |-> Record(body[i], t)]]

\* scrape_page(page_num) on the response r, at time t
ScrapePage(r, t) ==
    IF RaisesRequestException(r)
    THEN [kind |-> "return", exc |-> "", value |-> <<>>]
    ELSE ParseBody(r.body, t)

(***************************************************************************)
(* scrape_all                                                              *)
(***************************************************************************)
\* range(1, max_pages + 2)
PageRangeOneMore(n) == 1..(n + 1)

\* range(1, max_pages + 1)
PageRange(n) == 1..n

\* if page_quotes is None: break
StopOnNone(p) == FALSE

\* if not page_quotes: break
ShouldStop(p) == p = <<>>

\* self.quotes = page_quotes
ExtendReplaces(q, p) == p

\* self.quotes = page_quotes + self.quotes
ExtendInFront(q, p) == p \o q

\* self.quotes.extend(page_quotes)
Extend(q, p) == q \o p

\* if page_num <= max_pages: time.sleep(delay)
SleepAfterEveryPage(n, m) == n <= m

\* if page_num < max_pages: time.sleep(delay)
ShouldSleep(n, m) == n < m

(***************************************************************************)
(* export_to_csv, export_to_json                                           *)
(***************************************************************************)
\* no statistics are held: get_statistics was not the last call
NoStats == [returned |-> "nothing", total_quotes |-> 0, unique_authors |-> 0,
            most_common_author |-> None, unique_tags |-> 0,
            most_common_tag |-> None]

\* the frame of the last scrape_all call, and its history, are gone once
\* another method is called
FrameGone ==
    /\ max_pages' = 0
    /\ delay' = 0
    /\ page_num' = 0
    /\ page_quotes' = <<>>
    /\ pre' = <<>>
    /\ log' = <<>>

CsvName == "quotes.csv"

JsonName == "quotes.json"

NoFile == [kind |-> "absent", rows |-> <<>>]

\* export without the guard
AlwaysExport(q) == FALSE

\* if not self.quotes: print(...); return
NothingToExport(q) == q = <<>>

\* the items a loop over q['tags'] sees; self.quotes holds lists only
TagItems(v) == IF v.type = "list" THEN v.items ELSE <<v.s>>

\* quote_copy = quote: the same dict as the list holds
AliasQuote(q) == [dict |-> q, shared |-> TRUE]

\* quote.copy(): a new dict with the same items, not shared with the list
CopyQuote(q) == [dict |-> q, shared |-> FALSE]

\* one iteration of export_to_csv's loop: the row written for the quote, and
\* the quote as the list holds it afterwards
CsvRow(q) ==
    LET c == CopyQuote(q)
        flat == PyStr(Join(", ", TagItems(q.tags)))
        quote_copy == [c.dict EXCEPT !.tags = flat]
    IN [row |-> <<quote_copy.text, quote_copy.author, quote_copy.tags.s,
                  quote_copy.scraped_at>>,
        quote |-> IF c.shared THEN quote_copy ELSE q]

CsvFile(q) ==
    [kind |-> "csv",
     rows |-> <<<<"text", "author", "tags", "scraped_at">>>>
              \o [i \in 1..Len(q) |-> CsvRow(q[i]).row]]

\* json.dump(self.quotes, ...): the list as it is, tags as arrays
JsonFile(q) == [kind |-> "json", rows |-> q]

\* a caller calls export_to_csv(); open() and the writes are taken to succeed
ExportToCsv ==
    /\ pc = "idle"
    /\ op' = "export_to_csv"
    /\ outcome' = "returned"
    /\ IF NothingToExport(quotes)
       THEN UNCHANGED <<quotes, fs>>
       ELSE /\ fs' = [fs EXCEPT ![CsvName] = CsvFile(quotes)]
            /\ quotes' = [i \in 1..Len(quotes) |-> CsvRow(quotes[i]).quote]
    /\ stats' = NoStats
    /\ FrameGone
    /\ UNCHANGED <<pc, response, now, calls>>

\* a caller calls export_to_json(); open() and the write are taken to succeed
ExportToJson ==
    /\ pc = "idle"
    /\ op' = "export_to_json"
    /\ outcome' = "returned"
    /\ IF NothingToExport(quotes)
       THEN UNCHANGED fs
       ELSE fs' = [fs EXCEPT ![JsonName] = JsonFile(quotes)]
    /\ stats' = NoStats
    /\ FrameGone
    /\ UNCHANGED <<quotes, pc, response, now, calls>>

(***************************************************************************)
(* get_statistics                                                          *)
(***************************************************************************)
\* return {}
EmptyDict == [NoStats EXCEPT !.returned = "{}"]

\* set(xs)
SetOf(xs) == {xs[i] : i \in 1..Len(xs)}

\* xs.count(x)
Count(xs, x) == Cardinality({i \in 1..Len(xs) : xs[i] = x})

\* [q['author'] for q in self.quotes]
Authors(q) == [i \in 1..Len(q) |-> q[i].author]

\* [tag for q in self.quotes for tag in set(q['tags'])]: a tag once per quote
AllTagsOncePerQuote(q) ==
    Flatten([i \in 1..Len(q) |->
               LET ts == TagItems(q[i].tags)
               IN SelectSeq([j \in 1..Len(ts) |->
                               IF \E k \in 1..(j - 1) : ts[k] = ts[j]
                               THEN None ELSE ts[j]],
                            LAMBDA t : t # None)])

\* [tag for q in self.quotes for tag in q['tags']]
AllTags(q) == Flatten([i \in 1..Len(q) |-> TagItems(q[i].tags)])

\* what max(set(xs), key=xs.count) can return: the first element of maximal
\* count in the set's iteration order, which is any order
MaxByCount(xs) ==
    {x \in SetOf(xs) : \A y \in SetOf(xs) : Count(xs, y) <= Count(xs, x)}

\* a caller calls get_statistics()
GetStatistics ==
    /\ pc = "idle"
    /\ op' = "get_statistics"
    /\ outcome' = "returned"
    /\ IF quotes = <<>>
       THEN stats' = EmptyDict
       ELSE LET authors == Authors(quotes)
                all_tags == AllTags(quotes)
            IN \E a \in MaxByCount(authors) :
               \E t \in (IF all_tags # <<>> THEN MaxByCount(all_tags) ELSE {None}) :
                 stats' = [returned |-> "dict",
                           total_quotes |-> Len(quotes),
                           unique_authors |-> Cardinality(SetOf(authors)),
                           most_common_author |-> a,
                           unique_tags |-> Cardinality(SetOf(all_tags)),
                           most_common_tag |-> t]
    /\ FrameGone
    /\ UNCHANGED <<quotes, pc, response, now, calls, fs>>

(***************************************************************************)
(* The instance and its callers                                            *)
(***************************************************************************)
\* one entry of the history: a GET sent, what scrape_page came to (with the
\* kind of response it had), an extend of the Collection, a delay taken
Event(ev, page, recs, secs, kind) ==
    [ev |-> ev, page |-> page, recs |-> recs, secs |-> secs, kind |-> kind]

Init ==
    /\ quotes = <<>>
    /\ pc = "idle"
    /\ op = "__init__"
    /\ outcome = "returned"
    /\ max_pages = 0
    /\ delay = 0
    /\ page_num = 0
    /\ page_quotes = <<>>
    /\ response = NoResponse
    /\ now = 0
    /\ calls = 0
    /\ pre = <<>>
    /\ log = <<>>
    /\ fs = [f \in {CsvName, JsonName} |-> NoFile]
    /\ stats = NoStats

\* a caller calls scrape_all(max_pages=n, delay=d)
ScrapeAllCall ==
    /\ pc = "idle"
    /\ calls < MaxCalls
    /\ \E n \in 0..MaxPages, d \in Delays :
         /\ max_pages' = n
         /\ delay' = d
    /\ calls' = calls + 1
    /\ op' = "scrape_all"
    /\ outcome' = "running"
    /\ page_num' = 1
    /\ page_quotes' = <<>>
    /\ pre' = quotes
    /\ log' = <<>>
    /\ pc' = "for"
    /\ now' = now + 1
    /\ stats' = NoStats
    /\ UNCHANGED <<quotes, response, fs>>

\* the loop takes its next page and scrape_page sends the GET
SessionGet ==
    /\ pc = "for"
    /\ page_num \in PageRange(max_pages)
    /\ response' \in Responses(MaxQuotes - Len(quotes))
    /\ log' = Append(log, Event("get", page_num, <<>>, 0, ""))
    /\ UNCHANGED now
    /\ pc' = "scrape_page"
    /\ UNCHANGED <<quotes, op, outcome, max_pages, delay, page_num,
                   page_quotes, calls, pre, fs, stats>>

\* scrape_page finishes: it returns a list, or an error leaves it and, as
\* scrape_all catches nothing, leaves scrape_all too
ScrapePageEnd ==
    /\ pc = "scrape_page"
    /\ LET res == ScrapePage(response, now) IN
         IF res.kind = "return"
         THEN /\ page_quotes' = res.value
              /\ log' = Append(log, Event("result", page_num, res.value, 0, response.kind))
              /\ pc' = "body"
              /\ UNCHANGED outcome
         ELSE /\ page_quotes' = <<>>
              /\ log' = Append(log, Event("raise", page_num, <<>>, 0, response.kind))
              /\ pc' = "idle"
              /\ outcome' = res.exc
    /\ response' = NoResponse
    /\ UNCHANGED <<quotes, op, max_pages, delay, page_num, now, calls, pre,
                   fs, stats>>

\* the loop body after scrape_page: break, or extend and go on to the delay
\* or to the next page
LoopBody ==
    /\ pc = "body"
    /\ IF ShouldStop(page_quotes)
       THEN /\ pc' = "return"
            /\ UNCHANGED <<quotes, log, page_num>>
       ELSE /\ quotes' = Extend(quotes, page_quotes)
            /\ log' = Append(log, Event("extend", page_num, page_quotes, 0, ""))
            /\ IF ShouldSleep(page_num, max_pages)
               THEN pc' = "sleep" /\ UNCHANGED page_num
               ELSE pc' = "for" /\ page_num' = page_num + 1
    /\ UNCHANGED <<op, outcome, max_pages, delay, page_quotes, response, now,
                   calls, pre, fs, stats>>

\* time.sleep(delay), then the next iteration
Sleep ==
    /\ pc = "sleep"
    /\ log' = Append(log, Event("sleep", page_num, <<>>, delay, ""))
    /\ page_num' = page_num + 1
    /\ pc' = "for"
    /\ UNCHANGED <<quotes, op, outcome, max_pages, delay, page_quotes,
                   response, now, calls, pre, fs, stats>>

\* the range is exhausted or the loop was left by break: return self.quotes
ScrapeAllReturn ==
    /\ \/ pc = "for" /\ page_num \notin PageRange(max_pages)
       \/ pc = "return"
    /\ pc' = "idle"
    /\ outcome' = "returned"
    /\ UNCHANGED <<quotes, op, max_pages, delay, page_num, page_quotes,
                   response, now, calls, pre, log, fs, stats>>

Next ==
    \/ ScrapeAllCall
    \/ SessionGet
    \/ ScrapePageEnd
    \/ LoopBody
    \/ Sleep
    \/ ScrapeAllReturn
    \/ ExportToCsv
    \/ ExportToJson
    \/ GetStatistics

Spec == Init /\ [][Next]_vars

(***************************************************************************)
(* get_statistics tried on every Collection of up to MaxStatLen records,   *)
(* loaded into a new instance as src/demo.py loads its sample.             *)
(***************************************************************************)
StatRecords ==
    { [text |-> "q", author |-> a, tags |-> PyList(ts), scraped_at |-> IsoFormat(0)] :
        a \in {"X", "Y"}, ts \in SeqsUpTo({"t1", "t2"}, 2) }

InitStats ==
    /\ quotes \in SeqsUpTo(StatRecords, MaxStatLen)
    /\ pc = "idle"
    /\ op = "__init__"
    /\ outcome = "returned"
    /\ max_pages = 0
    /\ delay = 0
    /\ page_num = 0
    /\ page_quotes = <<>>
    /\ response = NoResponse
    /\ now = 0
    /\ calls = 0
    /\ pre = <<>>
    /\ log = <<>>
    /\ fs = [f \in {CsvName, JsonName} |-> NoFile]
    /\ stats = NoStats

NextStats == GetStatistics

SpecStats == InitStats /\ [][NextStats]_vars

(***************************************************************************)
(* Properties                                                              *)
(***************************************************************************)
\* the most recent call was scrape_all and it has returned to its caller
ScrapeAllReturned == pc = "idle" /\ op = "scrape_all" /\ outcome = "returned"

EventsOf(ev) == SelectSeq(log, LAMBDA e : e.ev = ev)

\* the pages requested by the current scrape_all call, in order
Requested == [i \in 1..Len(EventsOf("get")) |-> EventsOf("get")[i].page]

\* the record sequences scrape_page returned in the current call, in order
PageResults == [i \in 1..Len(EventsOf("result")) |-> EventsOf("result")[i].recs]

\* the number of leading non-empty entries of rs: the last page before the
\* first empty one
LastBeforeEmpty(rs) ==
    IF \E i \in 1..Len(rs) : rs[i] = <<>>
    THEN (CHOOSE i \in 1..Len(rs) :
            rs[i] = <<>> /\ \A j \in 1..(i - 1) : rs[j] # <<>>) - 1
    ELSE Len(rs)

RECURSIVE SumLen(_)
SumLen(rs) == IF rs = <<>> THEN 0 ELSE Len(rs[1]) + SumLen(Tail(rs))

\* what scrape_all has to have collected from the results rs of pages 1..
Collected(rs) == SubSeq(rs, 1, LastBeforeEmpty(rs))

\* the results are those of pages 1, 2, ... and run to max_pages unless one
\* of them is empty
ResultsArePages ==
    /\ \A i \in 1..Len(EventsOf("result")) : EventsOf("result")[i].page = i
    /\ LastBeforeEmpty(PageResults) = Len(PageResults)
         => Len(PageResults) = max_pages

\* C1 as stated: after scrape_all(max_pages=N) returns, the Collection is the
\* in-order concatenation of the record sequences scrape_page returned for
\* pages 1..m, m the last page before the first empty page (or N), and its
\* length is the sum of those pages' counts.
C1_CollectionIsConcatenation ==
    ScrapeAllReturned =>
        /\ ResultsArePages
        /\ quotes = Flatten(Collected(PageResults))
        /\ Len(quotes) = SumLen(Collected(PageResults))

\* C1 amended: after scrape_all(max_pages=N) returns, the Collection is the
\* Collection as it was at the call followed by the in-order concatenation of
\* the record sequences scrape_page returned for pages 1..m; its length grew
\* by the sum of those pages' counts.
C1_AppendsConcatenation ==
    ScrapeAllReturned =>
        /\ ResultsArePages
        /\ quotes = pre \o Flatten(Collected(PageResults))
        /\ Len(quotes) = Len(pre) + SumLen(Collected(PageResults))

\* two non-empty pages and an empty third collected, behind earlier records
C1_Witness ==
    /\ ScrapeAllReturned
    /\ max_pages = 3
    /\ pre # <<>>
    /\ Len(PageResults) = 3
    /\ LastBeforeEmpty(PageResults) = 2
    /\ Len(quotes) = Len(pre) + 2

\* C2: when the GET raises a transport error or the status is not a success,
\* scrape_page returns an empty sequence to its caller, raises nothing, and
\* leaves the Collection unchanged.
C2_FailureYieldsEmptyPage ==
    [][(pc = "scrape_page" /\ response.kind \in {"transport_error", "http_error"})
         => /\ pc' = "body"
            /\ page_quotes' = <<>>
            /\ outcome' = outcome
            /\ quotes' = quotes]_vars

\* scrape_page has returned empty on an error status whose page held quotes
C2_Witness ==
    /\ pc = "body"
    /\ page_quotes = <<>>
    /\ log[Len(log)].ev = "result"
    /\ log[Len(log)].kind = "http_error"
    /\ quotes = pre

WellFormed(e) == e.text # None /\ e.author # None

\* C3: on a successfully fetched page where some quote elements lack the text
\* or author sub-element, scrape_page skips those elements only and returns
\* the Records of the remaining elements in document order; no error reaches
\* the caller.
C3_MalformedElementsSkipped ==
    [][(/\ pc = "scrape_page"
        /\ response.kind = "ok"
        /\ \E i \in 1..Len(response.body) : ~WellFormed(response.body[i]))
         => /\ pc' = "body"
            /\ outcome' # "AttributeError"
            /\ LET kept == SelectSeq(response.body, WellFormed)
               IN page_quotes' = [i \in 1..Len(kept) |-> Record(kept[i], now)]]_vars

\* C4 as stated: scrape_all(max_pages=0) yields an empty Collection and no
\* network call, whatever the state it is called in.
C4_ZeroPagesYieldsEmpty ==
    (ScrapeAllReturned /\ max_pages = 0) => (quotes = <<>> /\ log = <<>>)

\* C4 amended: scrape_all(max_pages=0) leaves the Collection as it was at the
\* call (empty on a new instance) and issues no network call: scrape_page is
\* never invoked and no delay is taken.
C4_ZeroPagesNoRequest ==
    (op = "scrape_all" /\ max_pages = 0) =>
        /\ quotes = pre
        /\ log = <<>>
        /\ response = NoResponse
        /\ pc \in {"for", "idle"}
        /\ calls = 1 => quotes = <<>>

\* scrape_all(0) has returned on an instance that had collected records
C4_Witness ==
    /\ ScrapeAllReturned
    /\ max_pages = 0
    /\ calls = 2
    /\ quotes # <<>>

\* C5: export_to_csv and export_to_json called while the Collection is empty
\* write no file, raise nothing and leave the Collection empty.
C5_EmptyExportIsNoOp ==
    [][(pc = "idle" /\ quotes = <<>> /\ op' \in {"export_to_csv", "export_to_json"})
         => /\ fs' = fs
            /\ \A f \in DOMAIN fs : fs'[f] = NoFile
            /\ quotes' = <<>>
            /\ outcome' = "returned"]_vars

\* an export has returned on an empty Collection after a scrape that found
\* nothing
C5_Witness ==
    /\ op \in {"export_to_csv", "export_to_json"}
    /\ calls = 1
    /\ quotes = <<>>
    /\ \A f \in DOMAIN fs : fs[f] = NoFile

RECURSIVE AuthorOccurrences(_, _)
\* in how many records of q the author is a
AuthorOccurrences(q, a) ==
    IF q = <<>> THEN 0
    ELSE (IF q[1].author = a THEN 1 ELSE 0) + AuthorOccurrences(Tail(q), a)

RECURSIVE OccurrencesIn(_, _)
OccurrencesIn(ts, t) ==
    IF ts = <<>> THEN 0
    ELSE (IF ts[1] = t THEN 1 ELSE 0) + OccurrencesIn(Tail(ts), t)

RECURSIVE TagOccurrences(_, _)
\* how often the tag t occurs over the records of q, duplicates counted
TagOccurrences(q, t) ==
    IF q = <<>> THEN 0
    ELSE OccurrencesIn(q[1].tags.items, t) + TagOccurrences(Tail(q), t)

AuthorSet(q) == {q[i].author : i \in 1..Len(q)}

TagSet(q) == UNION {{q[i].tags.items[j] : j \in 1..Len(q[i].tags.items)} : i \in 1..Len(q)}

\* C6: on a non-empty Collection get_statistics returns total_quotes = the
\* Collection's length, unique_authors = the number of distinct authors,
\* unique_tags = the number of distinct tags, most_common_author an author of
\* maximal occurrence count, and most_common_tag a tag of maximal occurrence
\* count (duplicates counted), or None exactly when no record has a tag.
C6_StatisticsAreCorrect ==
    (op = "get_statistics" /\ quotes # <<>>) =>
        /\ stats.returned = "dict"
        /\ stats.total_quotes = Len(quotes)
        /\ stats.unique_authors = Cardinality(AuthorSet(quotes))
        /\ stats.unique_tags = Cardinality(TagSet(quotes))
        /\ stats.most_common_author \in AuthorSet(quotes)
        /\ \A a \in AuthorSet(quotes) :
             AuthorOccurrences(quotes, a)
               <= AuthorOccurrences(quotes, stats.most_common_author)
        /\ stats.most_common_tag = None <=> TagSet(quotes) = {}
        /\ TagSet(quotes) # {} =>
             /\ stats.most_common_tag \in TagSet(quotes)
             /\ \A t \in TagSet(quotes) :
                  TagOccurrences(quotes, t)
                    <= TagOccurrences(quotes, stats.most_common_tag)

\* the statistics of a Collection where one tag is in more records and the
\* other occurs more often
C6_Witness ==
    /\ op = "get_statistics"
    /\ Len(quotes) = 3
    /\ stats.unique_authors = 2
    /\ stats.most_common_author = "X"
    /\ stats.most_common_tag = "t2"
    /\ TagOccurrences(quotes, "t2") = 3
    /\ Cardinality({i \in 1..3 : OccurrencesIn(quotes[i].tags.items, "t1") > 0}) = 2

\* C7: export_to_csv, export_to_json and get_statistics leave the Collection
\* as it was: same records in the same order, each with its text, author,
\* tags and timestamp, and tags still a list after the CSV export flattened it.
C7_ExportsLeaveRecordsAlone ==
    [][(pc = "idle" /\ op' \in {"export_to_csv", "export_to_json", "get_statistics"})
         => /\ quotes' = quotes
            /\ \A i \in 1..Len(quotes') : quotes'[i].tags.type = "list"]_vars

\* a CSV export has flattened a record's two tags into "t1, t2" and the
\* record still holds the list
C7_Witness ==
    /\ op = "export_to_csv"
    /\ quotes # <<>>
    /\ quotes[1].tags = PyList(<<"t1", "t2">>)
    /\ fs[CsvName].kind = "csv"
    /\ fs[CsvName].rows[2][3] = "t1, t2"

\* C8: within one scrape_all(N) call the pages requested are 1, 2, ..., m
\* with m <= N, each once; no page is requested after a page that yielded
\* nothing (an error, a failure or an empty page); once N requests were made
\* no further request can be; and the call ends: it always has a next step
\* and takes at most four (request, result, extend, delay) per page.
C8_RequestsAreSequential ==
    op = "scrape_all" =>
        /\ Requested = [i \in 1..Len(Requested) |-> i]
        /\ Len(Requested) <= max_pages
        /\ \A i \in 1..Len(log) :
             (log[i].ev = "raise" \/ (log[i].ev = "result" /\ log[i].recs = <<>>))
               => /\ i = Len(log)
                  /\ ~ ENABLED SessionGet
        /\ Len(Requested) = max_pages => ~ ENABLED SessionGet
        /\ response # NoResponse => log[Len(log)].ev = "get"
        /\ Len(log) <= 4 * max_pages
        /\ pc # "idle" =>
             ENABLED (SessionGet \/ ScrapePageEnd \/ LoopBody \/ Sleep \/ ScrapeAllReturn)

\* scrape_all(3) has returned after pages 1 and 2, the second a transport failure
C8_Witness ==
    /\ ScrapeAllReturned
    /\ max_pages = 3
    /\ Requested = <<1, 2>>
    /\ log[Len(log)].ev = "result"
    /\ log[Len(log)].kind = "transport_error"

\* C9: in scrape_all(N, delay) every delay is of the configured duration and
\* directly follows the extend of a page below N, and a request directly
\* follows it; every request but the first directly follows one delay; so no
\* delay follows page N or a page that yielded nothing.
C9_OneDelayBetweenRequests ==
    op = "scrape_all" =>
        \A i \in 1..Len(log) :
            /\ log[i].ev = "sleep" =>
                 /\ log[i].secs = delay
                 /\ log[i].page < max_pages
                 /\ i > 1
                 /\ log[i - 1].ev = "extend"
                 /\ log[i - 1].page = log[i].page
                 /\ IF i < Len(log)
                    THEN log[i + 1].ev = "get" /\ log[i + 1].page = log[i].page + 1
                    ELSE ENABLED SessionGet
            /\ (log[i].ev = "get" /\ log[i].page > 1) =>
                 /\ i > 1
                 /\ log[i - 1].ev = "sleep"
            /\ (log[i].ev = "extend" /\ log[i].page < max_pages) =>
                 (i < Len(log) => log[i + 1].ev = "sleep")

\* scrape_all(3, 1) has returned with three pages collected and two delays
C9_Witness ==
    /\ ScrapeAllReturned
    /\ max_pages = 3
    /\ delay = 1
    /\ Len(EventsOf("extend")) = 3
    /\ Len(EventsOf("sleep")) = 2
    /\ log[Len(log)].ev = "extend"

\* C10: over any sequence of scrape_all, export_to_csv, export_to_json and
\* get_statistics calls the Collection before a step is a prefix of the
\* Collection after it.
C10_CollectionOnlyGrows == [][IsPrefix(quotes, quotes')]_vars

\* a second scrape_all has appended a record equal to one of its own behind
\* the first call's records
C10_Witness ==
    /\ ScrapeAllReturned
    /\ calls = 2
    /\ pre # <<>>
    /\ Len(quotes) = Len(pre) + 2
    /\ quotes[Len(quotes)] = quotes[Len(quotes) - 1]
    /\ IsPrefix(pre, quotes)
====
